---- MODULE Spec2Model ----
(***************************************************************************)
(* Alert-to-order pipeline of the trading bot: the processAlert handler    *)
(* (open and close signals), the updateTradePnl handler (reconciliation)   *)
(* and the data store / exchange state they share.                         *)
(*                                                                         *)
(* Units: prices are whole USDT, quantities are thousandths of a contract, *)
(* PnL amounts (realized_pnl, profit_loss, daily_loss_limit) are           *)
(* millionths of a USDT, so price * quantity * 1000 is a PnL amount.       *)
(***************************************************************************)
EXTENDS Integers, Sequences, FiniteSets, TLC

\* ---------------------------------------------------------------- bounds
MaxDay == 1        \* the UTC day counter runs 0..MaxDay
MaxFaults == 1     \* data-store failures per behaviour

\* ------------------------------------------------------------- constants
NULL == -999999999           \* JavaScript null / undefined
PnlUnit == 1000000           \* PnL amounts per USDT
FeePerMille == 1             \* the 0.001 fee rate of the PnL estimate

\* Three invocations per behaviour: "a" runs alone on the empty store, then
\* "b" and "c" run concurrently with each other.
Procs == {"a", "b", "c"}
OrderIds == 1..3             \* one order id per invocation at most
Symbols == {"BTCUSDT"}

\* values the environment supplies
AlertPrice == 500                                   \* alertData.price of an open alert
AlertQty == 100                                     \* alertData.quantity (0.1)
\* side, stopLoss, takeProfit of an open alert
OpenInputs == {<<"Buy", NULL, NULL>>, <<"Sell", NULL, NULL>>,
               <<"Buy", 480, NULL>>, <<"Sell", 480, 460>>}
\* realized_pnl, close_reason of a close alert
CloseInputs == {<<NULL, "null">>, <<0, "stop_loss">>,
                <<-120 * PnlUnit, "null">>, <<-120 * PnlUnit, "stop_loss">>}
FillPrices == {520}                                 \* fill price of a close order
SimChanges == {-2, 1}                               \* Math.random()*4-2, in percent
DailyLimits == {0, 100 * PnlUnit}                   \* bot.daily_loss_limit
ExchangeRecords ==
  { [closedPnl |-> -100 * PnlUnit, avgEntryPrice |-> 501, avgExitPrice |-> 481] }
NoRecord == [closedPnl |-> NULL, avgEntryPrice |-> NULL, avgExitPrice |-> NULL]

VARIABLES
  trades,       \* the trades table: a sequence, a Trade's id is its index
  pnlOrigin,    \* history: who wrote each Trade's current realized_pnl
  bot,          \* the bots row of the one bot
  closedPnl,    \* the exchange's closed-PnL list: order id -> record
  flat,         \* order ids whose position a close order has flattened
  today,        \* the current UTC day
  nextOrderId,  \* next order id the exchange (or the simulation) hands out
  faultsLeft,   \* data-store failures still to be injected
  serial,       \* TRUE: every invocation returns before the next one starts
  pc,           \* position of each invocation in its handler
  loc,          \* local variables of each invocation, with its call counters
  sizer         \* a call of calculatePositionSize: its arguments and result

vars == <<trades, pnlOrigin, bot, closedPnl, flat, today, nextOrderId,
          faultsLeft, serial, pc, loc, sizer>>

\* ------------------------------------------------------ JavaScript helpers
Truthy(x) == x # NULL /\ x # 0

OrElse(x, y) == IF Truthy(x) THEN x ELSE y          \* x || y on numbers

OrElseStr(s, d) == IF s = "null" \/ s = "" THEN d ELSE s   \* x || y on strings

Abs(x) == IF x < 0 THEN -x ELSE x

\* ------------------------------------------------------------- risk gate
RECURSIVE SumPnlFrom(_, _, _)
SumPnlFrom(ts, i, day) ==
  IF i > Len(ts) THEN 0
  ELSE (IF ts[i].created_day >= day THEN OrElse(ts[i].realized_pnl, 0) ELSE 0)
       + SumPnlFrom(ts, i + 1, day)

\* todayTrades.reduce(...) over the trades created since 00:00 UTC of day
DailyPnL(ts, day) == SumPnlFrom(ts, 1, day)

DailyLossDeniedStrict(dailyPnL, limit) == dailyPnL < 0 /\ Abs(dailyPnL) > limit

DailyLossDenied(dailyPnL, limit) == dailyPnL < 0 /\ Abs(dailyPnL) >= limit

RiskCheckEnabled(b) == Truthy(b.daily_loss_limit) \/ Truthy(b.max_position_size)

\* ------------------------------------------------- calculatePositionSize
\* Quantities are whole thousandths of a contract, prices, riskAmount and
\* maxPositionSize whole USDT, feePercentage is in units of 1/40 percent
\* (3 = 0.075%), so feePercentage / 100 is feePercentage / FeeScale.  The
\* arithmetic is exact where the code computes in binary floating point.
FeeScale == 4000
QtyUnit == 1000

\* the stop loss is on the wrong side of the entry price
InvalidStopLoss(side, entryPrice, stopLoss) ==
  IF side = "Buy" THEN entryPrice <= stopLoss ELSE stopLoss <= entryPrice

\* Math.floor(quantity / qtyStep) * qtyStep
FloorToStep(quantity, qtyStep) == (quantity \div qtyStep) * qtyStep

\* 10^(3 - decimals): the thousandths in one unit of the last kept digit
RECURSIVE Grid(_)
Grid(decimals) == IF decimals >= 3 THEN 1 ELSE 10 * Grid(decimals + 1)

\* parseFloat(quantity.toFixed(decimals)): the nearest number with that many
\* fractional digits (a quantity half way between two is taken upwards)
ToFixed(quantity, decimals) ==
  ((quantity + Grid(decimals) \div 2) \div Grid(decimals)) * Grid(decimals)

SizerErrorQuiet(msg) == [error |-> "", quantity |-> 0]

\* throw new Error(msg): no quantity is returned
SizerError(msg) == [error |-> msg, quantity |-> NULL]

calculatePositionSize(params) ==
  LET entryPrice == params.entryPrice
      stopLoss == params.stopLoss
      riskAmount == params.riskAmount
      side == params.side
      minQty == params.minQty
      qtyStep == params.qtyStep
      maxPositionSize == params.maxPositionSize
      riskPerUnit == IF side = "Buy" THEN entryPrice - stopLoss
                                     ELSE stopLoss - entryPrice
      \* entryPrice * totalFeeRateFactor, times FeeScale
      feePerUnit == entryPrice * params.feePercentage
                    + stopLoss * params.feePercentage
      \* positionSize = riskAmount / (riskPerUnit + fees), in thousandths,
      \* then quantity = positionSize / entryPrice, both rounded down: every
      \* later comparison is with a whole number of thousandths
      positionSize == (riskAmount * FeeScale * QtyUnit)
                      \div (riskPerUnit * FeeScale + feePerUnit)
      raw == positionSize \div entryPrice
      atLeastMin == IF raw < minQty THEN minQty ELSE raw
      stepped == IF qtyStep > 0 THEN FloorToStep(atLeastMin, qtyStep)
                                ELSE atLeastMin
      reduced == (maxPositionSize * QtyUnit) \div entryPrice
      capped == IF maxPositionSize > 0 /\ stepped * entryPrice > maxPositionSize * QtyUnit
                THEN (IF qtyStep > 0 THEN FloorToStep(reduced, qtyStep) ELSE reduced)
                ELSE stepped
  IN  IF ~Truthy(entryPrice) \/ entryPrice <= 0 THEN SizerError("EntryPrice")
      ELSE IF ~Truthy(stopLoss) \/ stopLoss <= 0 THEN SizerError("StopLoss")
      ELSE IF ~Truthy(riskAmount) \/ riskAmount <= 0 THEN SizerError("RiskAmount")
      ELSE IF side # "Buy" /\ side # "Sell" THEN SizerError("Side")
      ELSE IF InvalidStopLoss(side, entryPrice, stopLoss)
           THEN SizerError("InvalidStopLoss")
      ELSE [error |-> "", quantity |-> ToFixed(capped, params.decimals)]

\* ---------------------------------------------------------- PnL estimate
EstimatePnlNoFee(side, entryPrice, exitPrice, quantity, filledQty) ==
  IF side = "Buy" THEN (exitPrice - entryPrice) * quantity * 1000
                  ELSE (entryPrice - exitPrice) * quantity * 1000

\* (exit - entry) * quantity, sign flipped for Sell, minus exit * qty * 0.001
EstimatePnl(side, entryPrice, exitPrice, quantity, filledQty) ==
  (IF side = "Buy" THEN (exitPrice - entryPrice) * quantity * 1000
                   ELSE (entryPrice - exitPrice) * quantity * 1000)
  - exitPrice * filledQty * FeePerMille

\* simulated PnL of a test-mode open: baseAmount * (+-change / 100) - fees
SimulatedOpenPnl(side, price, quantity, change) ==
  LET baseAmount == OrElse(price, 0) * quantity * 1000
      gross == IF side = "Buy" THEN (baseAmount * change) \div 100
                               ELSE (baseAmount * (-change)) \div 100
  IN  gross - baseAmount \div 1000

\* ------------------------------------------------------------ test mode
SimulatedNever(b) == FALSE

\* if (bot.test_mode): the order result is built locally, no order is sent
Simulated(b) == b.test_mode

\* ------------------------------------------------------------ close path
SameSide(side) == side

CloseSide(side) == IF side = "Buy" THEN "Sell" ELSE "Buy"

NeedsCloseOrder(t) == ~Truthy(t.stop_loss) /\ ~Truthy(t.take_profit)

TpSlCloseReasonSignal(a) == "signal"

TpSlCloseReason(a) == OrElseStr(a.close_reason, "take_profit")

OpenTradeIdsAnyState(ts, symbol) == {i \in 1..Len(ts) : ts[i].symbol = symbol}

\* the most recent open Trade of the symbol (order by created_at desc, limit 1)
OpenTradeIds(ts, symbol) ==
  {i \in 1..Len(ts) : ts[i].symbol = symbol /\ ts[i].state = "open"}

MinOf(S) == CHOOSE x \in S : \A y \in S : x <= y

MaxOf(S) == CHOOSE x \in S : \A y \in S : y <= x

\* ----------------------------------------------------------- reconciliation
SkipGuard(t, b) == t.realized_pnl # NULL /\ ~b.test_mode

PnlFieldsReopen(t, m) ==
  [t EXCEPT !.realized_pnl = m.closedPnl, !.avg_entry_price = m.avgEntryPrice,
            !.avg_exit_price = m.avgExitPrice, !.state = "open"]

PnlFields(t, m) ==
  [t EXCEPT !.realized_pnl = m.closedPnl, !.avg_entry_price = m.avgEntryPrice,
            !.avg_exit_price = m.avgExitPrice]

\* ------------------------------------------------------------------ state
Alerts ==
  { [state |-> "open", symbol |-> s, side |-> i[1], price |-> AlertPrice,
     quantity |-> AlertQty, stopLoss |-> i[2], takeProfit |-> i[3],
     realized_pnl |-> NULL, close_reason |-> "null"]
      : s \in Symbols, i \in OpenInputs }
  \cup
  { [state |-> "close", symbol |-> s, side |-> "Buy", price |-> NULL,
     quantity |-> NULL, stopLoss |-> NULL, takeProfit |-> NULL,
     realized_pnl |-> i[1], close_reason |-> i[2]]
      : s \in Symbols, i \in CloseInputs }

NoAlert ==
  [state |-> "", symbol |-> "", side |-> "", price |-> NULL, quantity |-> NULL,
   stopLoss |-> NULL, takeProfit |-> NULL, realized_pnl |-> NULL,
   close_reason |-> "null"]

NoBot ==
  [test_mode |-> FALSE, daily_loss_limit |-> NULL, max_position_size |-> NULL,
   position_sizing_enabled |-> FALSE, risk_per_trade |-> NULL,
   market_fee_percentage |-> NULL,
   profit_loss |-> NULL, trade_count |-> NULL]

\* a bots row with no trades yet: risk 90 USDT per trade, market fee 0.075%
BotRow(testMode, dailyLossLimit, sizingEnabled, maxPositionSize) ==
  [test_mode |-> testMode, daily_loss_limit |-> dailyLossLimit,
   max_position_size |-> maxPositionSize,
   position_sizing_enabled |-> sizingEnabled, risk_per_trade |-> 90,
   market_fee_percentage |-> 3,
   profit_loss |-> 0, trade_count |-> 0]

\* no instrument rule fetched
NoRule == [minQty |-> NULL, step |-> NULL, decimals |-> NULL]

NoTrade ==
  [symbol |-> "", side |-> "", quantity |-> NULL, price |-> NULL,
   order_id |-> NULL, stop_loss |-> NULL, take_profit |-> NULL,
   state |-> "", realized_pnl |-> NULL, close_reason |-> "null",
   exit_price |-> NULL, avg_entry_price |-> NULL, avg_exit_price |-> NULL,
   created_day |-> NULL]

\* locals of an invocation that has not started
Idle ==
  [kind |-> "", alert |-> NoAlert, bot |-> NoBot,
   tradeId |-> NULL, trade |-> NoTrade,
   realizedPnl |-> NULL, pnlKind |-> "none", closeReason |-> "",
   resultPrice |-> NULL, orderId |-> NULL, quantity |-> NULL, rule |-> NoRule,
   tradesError |-> FALSE, denied |-> FALSE, needOrder |-> FALSE,
   sizingFailed |-> FALSE, pnlFailed |-> FALSE, plain |-> FALSE,
   fallbackKey |-> FALSE,
   rtrade |-> NoTrade, rbot |-> NoBot, match |-> NoRecord, nested |-> FALSE,
   resp |-> "", rresp |-> "",
   infoCalls |-> 0, orderCalls |-> 0, orderSide |-> "", orderType |-> "",
   orderQty |-> NULL,
   pnlCalls |-> 0, tradeWrites |-> 0, botWrites |-> 0]

\* no call of calculatePositionSize on its own is under way
NoSizer == [phase |-> "none", params |-> <<>>, result |-> SizerError("")]

\* the tables, the exchange and the invocations before anything has happened
Start0 ==
  /\ trades = <<>>
  /\ pnlOrigin = <<>>
  /\ closedPnl = [o \in OrderIds |-> NoRecord]
  /\ flat = {}
  /\ today = 0
  /\ nextOrderId = 1
  /\ pc = [p \in Procs |-> "idle"]
  /\ loc = [p \in Procs |-> Idle]

\* a bot without position sizing and without a position cap
Store0 ==
  /\ Start0
  /\ \E tm \in BOOLEAN, dl \in DailyLimits : bot = BotRow(tm, dl, FALSE, 0)

\* the data store answers every call; "b" and "c" run concurrently
Init == Store0 /\ faultsLeft = 0 /\ serial = FALSE /\ sizer = NoSizer

\* data-store calls may fail; the invocations run one after the other
InitFaults == Store0 /\ faultsLeft = MaxFaults /\ serial = TRUE /\ sizer = NoSizer

\* outcomes of a data-store call: TRUE = applied, FALSE = error returned
DbOutcomes == IF faultsLeft > 0 THEN {TRUE, FALSE} ELSE {TRUE}

UseFault(ok) == faultsLeft' = IF ok THEN faultsLeft ELSE faultsLeft - 1

\* the response is returned: the invocation's locals die with it, what stays
\* is the response and the record of the calls it made
Return(l, response) ==
  [Idle EXCEPT !.kind = l.kind, !.tradeId = l.tradeId, !.nested = l.nested,
               !.resp = response, !.rresp = l.rresp,
               !.tradesError = l.tradesError, !.denied = l.denied,
               !.needOrder = l.needOrder, !.sizingFailed = l.sizingFailed,
               !.pnlFailed = l.pnlFailed, !.plain = l.plain,
               !.fallbackKey = l.fallbackKey,
               !.infoCalls = l.infoCalls, !.orderCalls = l.orderCalls,
               !.pnlCalls = l.pnlCalls, !.tradeWrites = l.tradeWrites,
               !.botWrites = l.botWrites]

End(p, l, response) ==
  /\ loc' = [loc EXCEPT ![p] = Return(l, response)]
  /\ pc' = [pc EXCEPT ![p] = "done"]

Goto(p, l, next) ==
  /\ loc' = [loc EXCEPT ![p] = l]
  /\ pc' = [pc EXCEPT ![p] = next]

\* an early return at `at`, or the step the handler goes on with
EndOrGoto(p, l, response, next) ==
  IF next = "done" THEN End(p, l, response) ELSE Goto(p, l, next)

\* locals the handler does not read again are dropped
AfterInsert(l) ==
  [l EXCEPT !.alert = NoAlert, !.quantity = NULL, !.resultPrice = NULL,
            !.orderId = NULL, !.orderSide = "", !.orderType = "", !.orderQty = NULL]

AfterFind(l) == [l EXCEPT !.alert = [NoAlert EXCEPT !.price = l.alert.price]]

AfterCloseUpdate(l) ==
  [l EXCEPT !.alert = NoAlert, !.trade = NoTrade, !.closeReason = "",
            !.resultPrice = NULL, !.pnlKind = "none",
            !.orderSide = "", !.orderType = "", !.orderQty = NULL,
            !.realizedPnl = IF Truthy(l.realizedPnl) THEN l.realizedPnl ELSE NULL,
            !.bot = IF Truthy(l.realizedPnl) THEN l.bot ELSE NoBot]

AfterCloseBot(l) == [l EXCEPT !.realizedPnl = NULL, !.bot = NoBot]

\* "a" starts first and finishes before "b" starts; "c" starts after "b"
Ready(p) ==
  /\ pc[p] = "idle"
  /\ p = "b" => pc["a"] = "done"
  /\ p = "c" => pc["b"] # "idle"
  /\ serial => \A q \in Procs : pc[q] \in {"idle", "done"}

\* -------------------------------------------------- processAlert: entry
KeyOutcomes == {"found", "fallback", "none"}

PathOfRiskFirst(tradeState) == "risk"

\* if (tradeState === "close") { ... return } else the open path, which
\* starts with the risk management checks
PathOf(tradeState) == IF tradeState = "close" THEN "find" ELSE "risk"

AlertStart(p) ==
  /\ Ready(p)
  /\ \E a \in Alerts, key \in KeyOutcomes :
       LET l == [Idle EXCEPT !.kind = a.state, !.alert = a, !.bot = bot] IN
       CASE key = "none" ->
              End(p, l, "ApiCredentialsNotFound")
         [] key = "fallback" ->
              \* apiKey = fallbackKey assigns to a const binding: TypeError
              End(p, [l EXCEPT !.fallbackKey = TRUE], "Error")
         [] key = "found" ->
              Goto(p, l, PathOf(a.state))
  /\ UNCHANGED <<trades, pnlOrigin, bot, closedPnl, flat, today, nextOrderId, faultsLeft, serial, sizer>>

\* --------------------------------------------------- processAlert: open
RiskDenyNextInfo == "info"

RiskDenyNext == "done"

TradesErrorNextDeny == "done"

\* if (tradesError): the error is logged and the open path goes on
TradesErrorNext == "info"

OpenRisk(p) ==
  /\ pc[p] = "risk"
  /\ LET l == loc[p]
         b == l.bot
     IN IF RiskCheckEnabled(b) /\ b.daily_loss_limit > 0
        THEN \E ok \in DbOutcomes :
               /\ UseFault(ok)
               /\ IF ~ok
                  THEN EndOrGoto(p, [l EXCEPT !.tradesError = TRUE],
                                 "DailyLossLimitExceeded", TradesErrorNext)
                  ELSE IF DailyLossDenied(DailyPnL(trades, today), b.daily_loss_limit)
                       THEN EndOrGoto(p, [l EXCEPT !.denied = TRUE],
                                      "DailyLossLimitExceeded", RiskDenyNext)
                       ELSE Goto(p, l, "info")
        ELSE /\ Goto(p, l, "info")
             /\ UNCHANGED faultsLeft
  /\ UNCHANGED <<trades, pnlOrigin, bot, closedPnl, flat, today, nextOrderId, serial, sizer>>

\* the instrument rule the exchange reports: minOrderQty 0.001, qtyStep 0.001
MinQty == 1
QtyStep == 1

\* rawQty < minQty ? minQty : Math.floor(rawQty / step) * step
DefaultQty(rawQty, minQty, step) ==
  IF rawQty < minQty THEN minQty ELSE (rawQty \div step) * step

\* the rules the exchange may report: 0.001 / 0.001 and 0.005 / 0.005, both
\* with three fractional digits in the step string
InstrumentRules ==
  { [minQty |-> MinQty, step |-> QtyStep, decimals |-> 3],
    [minQty |-> 5, step |-> 5, decimals |-> 3] }

\* position sizing is enabled and the alert carries a stop loss (the bot has
\* no default stop loss)
SizingWanted(b, a) == b.position_sizing_enabled /\ Truthy(a.stopLoss)

\* the arguments the handler passes; the alert carries the entry price, so
\* the ticker lookup for a missing price is not made
SizingParams(b, a, rule) ==
  [entryPrice |-> a.price, stopLoss |-> a.stopLoss,
   riskAmount |-> b.risk_per_trade, side |-> a.side,
   feePercentage |-> b.market_fee_percentage,
   minQty |-> rule.minQty, qtyStep |-> rule.step,
   maxPositionSize |-> OrElse(b.max_position_size, 0),
   decimals |-> rule.decimals]

\* the quantity before the minimum and the cap: calculatePositionSize's
\* result, or the default adjustment when sizing is not wanted, a price is
\* missing or calculatePositionSize throws (failed)
SizedQty(b, a, rule) ==
  LET rawQty == IF a.quantity = NULL THEN 0 ELSE a.quantity
      default == DefaultQty(rawQty, rule.minQty, rule.step)
      sized == calculatePositionSize(SizingParams(b, a, rule))
  IN  IF SizingWanted(b, a)
      THEN IF Truthy(a.price) /\ Truthy(a.stopLoss)
           THEN IF sized.error = ""
                THEN [quantity |-> sized.quantity, failed |-> FALSE]
                ELSE [quantity |-> default, failed |-> TRUE]
           ELSE [quantity |-> default, failed |-> FALSE]
      ELSE [quantity |-> default, failed |-> FALSE]

\* ensure the minimum, apply the precision, then the max position cap
AdjustedQty(b, a, rule, qty) ==
  LET atLeastMin == IF qty < rule.minQty THEN rule.minQty ELSE qty
      fixed == ToFixed(atLeastMin, rule.decimals)
      estPrice == OrElse(a.price, 0)
  IN  IF b.max_position_size > 0 /\ estPrice > 0
         /\ fixed * estPrice > b.max_position_size * QtyUnit
      THEN ToFixed(FloorToStep((b.max_position_size * QtyUnit) \div estPrice,
                               rule.step), rule.decimals)
      ELSE fixed

SizingFailNextAbort == "done"

\* after the positionSizingError catch the handler goes on to the order
SizingFailNext == "order"

InfoFailNextDefault == "order"

\* a failed instruments-info request throws; the open path's catch answers
\* with the error
InfoFailNext == "done"

OpenInfo(p) ==
  /\ pc[p] = "info"
  /\ LET l == [loc[p] EXCEPT !.infoCalls = @ + 1] IN
     \E ok \in BOOLEAN :
       IF ~ok
       THEN EndOrGoto(p, l, "InstrumentInfoError", InfoFailNext)
       ELSE \E rule \in InstrumentRules :
              LET sized == SizedQty(l.bot, l.alert, rule)
                  l1 == [l EXCEPT !.quantity =
                                     AdjustedQty(l.bot, l.alert, rule, sized.quantity),
                                  !.rule = rule,
                                  !.sizingFailed = sized.failed]
              IN IF sized.failed
                 THEN EndOrGoto(p, l1, "PositionSizingFailed", SizingFailNext)
                 ELSE Goto(p, l1, "order")
  /\ UNCHANGED <<trades, pnlOrigin, bot, closedPnl, flat, today, nextOrderId, faultsLeft, serial, sizer>>

OrderFailNextRetry(at) == at

OrderFailNextProceed(at) == IF at = "order" THEN "insert" ELSE "done"

OrderFailNextCloseProceeds(at) == IF at = "corder" THEN "cupdate" ELSE "done"

\* a failed executeBybitOrder at step `at` is answered with an error
OrderFailNext(at) == "done"

OpenOrder(p) ==
  /\ pc[p] = "order"
  /\ LET l == loc[p]
         a == l.alert
     IN IF Simulated(l.bot)
        THEN \E chg \in SimChanges :
               /\ Goto(p, [l EXCEPT !.orderId = nextOrderId, !.rule = NoRule,
                                    !.resultPrice = OrElse(a.price, 0),
                                    !.realizedPnl =
                                       SimulatedOpenPnl(a.side, a.price, l.quantity, chg)],
                       "insert")
               /\ nextOrderId' = nextOrderId + 1
        ELSE \E ok \in BOOLEAN :
               LET l1 == [l EXCEPT !.orderCalls = @ + 1, !.orderSide = a.side,
                                   !.orderType = "Market", !.orderQty = l.quantity,
                                   !.rule = NoRule]
               IN IF ~ok
                  THEN /\ EndOrGoto(p, l1, "OrderFailed", OrderFailNext("order"))
                       /\ UNCHANGED nextOrderId
                  ELSE /\ Goto(p, [l1 EXCEPT !.orderId = nextOrderId,
                                             !.resultPrice = a.price], "insert")
                       /\ nextOrderId' = nextOrderId + 1
  /\ UNCHANGED <<trades, pnlOrigin, bot, closedPnl, flat, today, faultsLeft, serial, sizer>>

NewTrade(l, day) ==
  [symbol |-> l.alert.symbol, side |-> l.alert.side, quantity |-> l.quantity,
   price |-> l.resultPrice, order_id |-> l.orderId,
   stop_loss |-> OrElse(l.alert.stopLoss, NULL),
   take_profit |-> OrElse(l.alert.takeProfit, NULL),
   state |-> "open", realized_pnl |-> l.realizedPnl, close_reason |-> "null",
   exit_price |-> NULL, avg_entry_price |-> NULL, avg_exit_price |-> NULL,
   created_day |-> day]

InsertTradeUnique(ts, t) ==
  IF \E i \in 1..Len(ts) :
       /\ ts[i].state = "open" /\ ts[i].symbol = t.symbol /\ ts[i].side = t.side
       /\ ts[i].quantity = t.quantity /\ ts[i].stop_loss = t.stop_loss
       /\ ts[i].take_profit = t.take_profit
  THEN ts ELSE Append(ts, t)

\* supabase.from('trades').insert({...}): a new row, whatever rows exist
InsertTrade(ts, t) == Append(ts, t)

OpenInsert(p) ==
  /\ pc[p] = "insert"
  /\ \E ok \in DbOutcomes :
       /\ UseFault(ok)
       /\ IF ok
          THEN /\ trades' = InsertTrade(trades, NewTrade(loc[p], today))
               /\ pnlOrigin' = Append(pnlOrigin,
                    IF loc[p].realizedPnl = NULL THEN "none" ELSE "simulated")
               /\ Goto(p, AfterInsert([loc[p] EXCEPT !.tradeWrites = @ + 1,
                                                     !.tradeId = Len(trades) + 1]),
                       "botupd")
          ELSE /\ Goto(p, AfterInsert(loc[p]), "botupd")
               /\ UNCHANGED <<trades, pnlOrigin>>
  /\ UNCHANGED <<bot, closedPnl, flat, today, nextOrderId, serial, sizer>>

BotStatsIncrement(b, realizedPnl) ==
  [trade_count |-> bot.trade_count + 1,
   profit_loss |-> bot.profit_loss + OrElse(realizedPnl, 0)]

\* the counters the open path writes, computed from the bot row `b` the
\* invocation loaded with the webhook at its start
BotStatsAfterOpen(b, realizedPnl) ==
  [trade_count |-> IF Truthy(b.trade_count) THEN b.trade_count + 1 ELSE 1,
   profit_loss |-> OrElse(b.profit_loss, 0) + OrElse(realizedPnl, 0)]

OpenBotUpdate(p) ==
  /\ pc[p] = "botupd"
  /\ LET l == loc[p] IN
     \E ok \in DbOutcomes :
       /\ UseFault(ok)
       /\ IF ok
          THEN /\ bot' = [bot EXCEPT
                   !.trade_count = BotStatsAfterOpen(l.bot, l.realizedPnl).trade_count,
                   !.profit_loss = BotStatsAfterOpen(l.bot, l.realizedPnl).profit_loss]
               /\ End(p, [l EXCEPT !.botWrites = @ + 1], "OpenSuccess")
          ELSE /\ End(p, l, "OpenSuccess")
               /\ UNCHANGED bot
  /\ UNCHANGED <<trades, pnlOrigin, closedPnl, flat, today, nextOrderId, serial, sizer>>

\* -------------------------------------------------- processAlert: close
CloseFind(p) ==
  /\ pc[p] = "find"
  /\ \E ok \in DbOutcomes :
       /\ UseFault(ok)
       /\ LET l == loc[p]
              ids == OpenTradeIds(trades, l.alert.symbol)
          IN IF ~ok \/ ids = {}
             THEN End(p, l, "NoOpenTrade")
             ELSE LET id == MaxOf(ids)
                      t == trades[id]
                      rp == OrElse(l.alert.realized_pnl, NULL)
                      l1 == [AfterFind(l) EXCEPT !.tradeId = id, !.trade = t,
                                      !.realizedPnl = rp,
                                      !.pnlKind = IF rp = NULL THEN "none" ELSE "alert",
                                      !.closeReason = "signal"]
                  IN IF NeedsCloseOrder(t)
                     THEN Goto(p, [l1 EXCEPT !.needOrder = TRUE], "corder")
                     ELSE Goto(p, [l1 EXCEPT !.closeReason = TpSlCloseReason(l.alert)],
                               "cupdate")
  /\ UNCHANGED <<trades, pnlOrigin, bot, closedPnl, flat, today, nextOrderId, serial, sizer>>

CloseOrder(p) ==
  /\ pc[p] = "corder"
  /\ LET l == loc[p]
         t == l.trade
     IN IF Simulated(l.bot)
        THEN LET px == OrElse(l.alert.price, (t.price * 101) \div 100) IN
             /\ Goto(p, [l EXCEPT !.resultPrice = px,
                                  !.realizedPnl =
                                     EstimatePnl(t.side, t.price, px, t.quantity,
                                                 t.quantity),
                                  !.pnlKind = "estimate"], "cupdate")
             /\ UNCHANGED flat
        ELSE \E ok \in BOOLEAN :
               LET l1 == [l EXCEPT !.orderCalls = @ + 1,
                                   !.orderSide = CloseSide(t.side),
                                   !.orderType = "Market",
                                   !.orderQty = t.quantity]
               IN IF ~ok
                  THEN /\ EndOrGoto(p, l1, "CloseOrderFailed", OrderFailNext("corder"))
                       /\ UNCHANGED flat
                  ELSE \E px \in FillPrices :
                         /\ flat' = flat \cup {t.order_id}
                         /\ Goto(p, IF ~Truthy(l.realizedPnl)
                                    THEN [l1 EXCEPT !.resultPrice = px,
                                            !.realizedPnl =
                                               EstimatePnl(t.side, t.price, px,
                                                           t.quantity, t.quantity),
                                            !.pnlKind = "estimate"]
                                    ELSE [l1 EXCEPT !.resultPrice = px], "cupdate")
  /\ UNCHANGED <<trades, pnlOrigin, bot, closedPnl, today, nextOrderId, faultsLeft,
                 serial, sizer>>

\* the fields the close path's trades update sets
CloseFields(t, closeReason, realizedPnl, exitPrice) ==
  [t EXCEPT !.state = "closed", !.close_reason = closeReason,
            !.realized_pnl = realizedPnl, !.exit_price = exitPrice]

CloseBotNextAlways(b) == "trigger"

\* where the close path goes once the bot's profit/loss step is over
CloseBotNext(b) == IF ~b.test_mode THEN "trigger" ELSE "done"

CloseUpdate(p) ==
  /\ pc[p] = "cupdate"
  /\ LET l == loc[p]
         next == IF Truthy(l.realizedPnl) THEN "cbot" ELSE CloseBotNext(l.bot)
     IN \E ok \in DbOutcomes :
          /\ UseFault(ok)
          /\ IF ok
             THEN /\ trades' = [trades EXCEPT ![l.tradeId] =
                                  CloseFields(@, l.closeReason, l.realizedPnl,
                                              l.resultPrice)]
                  /\ pnlOrigin' = [pnlOrigin EXCEPT ![l.tradeId] = l.pnlKind]
                  /\ EndOrGoto(p, AfterCloseUpdate([l EXCEPT !.tradeWrites = @ + 1]),
                               "CloseSuccess", next)
             ELSE /\ EndOrGoto(p, AfterCloseUpdate(l), "CloseSuccess", next)
                  /\ UNCHANGED <<trades, pnlOrigin>>
  /\ UNCHANGED <<bot, closedPnl, flat, today, nextOrderId, serial, sizer>>

CloseBotUpdate(p) ==
  /\ pc[p] = "cbot"
  /\ LET l == loc[p]
         next == CloseBotNext(l.bot)
     IN \E ok \in DbOutcomes :
          /\ UseFault(ok)
          /\ IF ok
             THEN /\ bot' = [bot EXCEPT !.profit_loss =
                               OrElse(l.bot.profit_loss, 0) + l.realizedPnl]
                  /\ EndOrGoto(p, AfterCloseBot([l EXCEPT !.botWrites = @ + 1]),
                               "CloseSuccess", next)
             ELSE /\ EndOrGoto(p, AfterCloseBot(l), "CloseSuccess", next)
                  /\ UNCHANGED bot
  /\ UNCHANGED <<trades, pnlOrigin, closedPnl, flat, today, nextOrderId, serial, sizer>>

\* --------------------------------------------------------- updateTradePnl
\* the run returns: a nested run hands control back to the close invocation,
\* which answers success whatever the run's outcome was
RecEnd(p, l, outcome) ==
  End(p, [l EXCEPT !.rresp = outcome],
      IF l.nested THEN "CloseSuccess" ELSE outcome)

TestTradeNever(b) == FALSE

\* if (trade.bots.test_mode): answer with the stored PnL, no exchange call
TestTrade(b) == b.test_mode

\* fetch the trade with its bot, skip guard, API key lookup, test-mode branch
RecFetch(p, tid, nested) ==
  LET l == [loc[p] EXCEPT !.nested = nested,
                          !.kind = IF nested THEN @ ELSE "reconcile"] IN
  \E ok \in DbOutcomes :
    /\ UseFault(ok)
    /\ IF ~ok \/ tid \notin 1..Len(trades)
       THEN RecEnd(p, l, "TradeNotFound")
       ELSE LET t == trades[tid]
                l1 == [l EXCEPT !.rtrade = t, !.rbot = bot, !.tradeId = tid]
            IN IF SkipGuard(t, bot)
               THEN RecEnd(p, l1, "Skipped")
               ELSE \E keyOk \in BOOLEAN :
                      IF ~keyOk THEN RecEnd(p, l1, "ApiCredentialsNotFound")
                      ELSE IF TestTrade(bot) THEN RecEnd(p, l1, "TestTrade")
                      ELSE Goto(p, l1, "rcall")

\* a close invocation of a real bot calls the updateTradePnl function
CloseTrigger(p) ==
  /\ pc[p] = "trigger"
  /\ \/ /\ End(p, loc[p], "CloseSuccess")        \* the HTTP call itself fails
        /\ UNCHANGED faultsLeft
     \/ RecFetch(p, loc[p].tradeId, TRUE)
  /\ UNCHANGED <<trades, pnlOrigin, bot, closedPnl, flat, today, nextOrderId, serial, sizer>>

\* a reconciliation run started by any other caller
RecInvoke(p) ==
  /\ Ready(p)
  /\ \E tid \in 1..(Len(trades) + 1) : RecFetch(p, tid, FALSE)
  /\ UNCHANGED <<trades, pnlOrigin, bot, closedPnl, flat, today, nextOrderId, serial, sizer>>

MatchingPnlAny(list, orderId) ==
  IF list[orderId] # NoRecord THEN list[orderId]
  ELSE IF \E o \in DOMAIN list : list[o] # NoRecord
       THEN list[CHOOSE o \in DOMAIN list : list[o] # NoRecord]
       ELSE NoRecord

\* closedPnlList.find(pnl => pnl.orderId === trade.order_id)
MatchingPnl(list, orderId) == list[orderId]

ExchangeFailNextProceed == "rupdate"

\* a failed closed-PnL request (HTTP status or retCode) throws: the catch
\* answers with the error
ExchangeFailNext == "done"

RecCall(p) ==
  /\ pc[p] = "rcall"
  /\ LET l == [loc[p] EXCEPT !.pnlCalls = @ + 1] IN
     \E outcome \in {"http", "retCode", "ok"} :
       IF outcome # "ok"
       THEN IF ExchangeFailNext = "done"
            THEN RecEnd(p, [l EXCEPT !.pnlFailed = TRUE], "ExchangeError")
            ELSE Goto(p, [l EXCEPT !.pnlFailed = TRUE], ExchangeFailNext)
       ELSE LET m == MatchingPnl(closedPnl, l.rtrade.order_id) IN
            IF m = NoRecord
            THEN RecEnd(p, l, "NoMatch")
            ELSE Goto(p, [l EXCEPT !.match = m, !.rtrade = NoTrade], "rupdate")
  /\ UNCHANGED <<trades, pnlOrigin, bot, closedPnl, flat, today, nextOrderId, faultsLeft, serial, sizer>>

RecUpdate(p) ==
  /\ pc[p] = "rupdate"
  /\ LET l == loc[p] IN
     \E ok \in DbOutcomes :
       /\ UseFault(ok)
       /\ IF ok
          THEN /\ trades' = [trades EXCEPT ![l.tradeId] = PnlFields(@, l.match)]
               /\ pnlOrigin' = [pnlOrigin EXCEPT ![l.tradeId] = "exchange"]
               /\ Goto(p, [l EXCEPT !.tradeWrites = @ + 1], "rbot")
          ELSE /\ RecEnd(p, l, "Error")
               /\ UNCHANGED <<trades, pnlOrigin>>
  /\ UNCHANGED <<bot, closedPnl, flat, today, nextOrderId, serial, sizer>>

ProfitLossAddedNow(b, pnl) == bot.profit_loss + pnl

\* (trade.bots.profit_loss || 0) + realizedPnl, from the bot row fetched
\* with the trade
ProfitLossAfterPnl(b, pnl) == OrElse(b.profit_loss, 0) + pnl

RecBotUpdate(p) ==
  /\ pc[p] = "rbot"
  /\ LET l == loc[p] IN
     \E ok \in DbOutcomes :
       /\ UseFault(ok)
       /\ IF ok
          THEN /\ bot' = [bot EXCEPT !.profit_loss =
                            ProfitLossAfterPnl(l.rbot, l.match.closedPnl)]
               /\ RecEnd(p, [l EXCEPT !.botWrites = @ + 1], "Updated")
          ELSE /\ RecEnd(p, l, "Updated")
               /\ UNCHANGED bot
  /\ UNCHANGED <<trades, pnlOrigin, closedPnl, flat, today, nextOrderId, serial, sizer>>

\* ------------------------------------------------------------ environment
\* the exchange books the closed PnL of a real position once it is closed:
\* by the exchange itself on a stop-loss / take-profit, or by a close order
ExchangeBook ==
  /\ ~bot.test_mode
  /\ \E i \in 1..Len(trades), r \in ExchangeRecords :
       /\ ~NeedsCloseOrder(trades[i]) \/ trades[i].order_id \in flat
       /\ closedPnl[trades[i].order_id] = NoRecord
       /\ closedPnl' = [closedPnl EXCEPT ![trades[i].order_id] = r]
  /\ UNCHANGED <<trades, pnlOrigin, bot, flat, today, nextOrderId, faultsLeft, serial, sizer,
                 pc, loc>>

\* midnight UTC passes between the first invocation and the later ones
NewDay ==
  /\ today < MaxDay
  /\ pc["a"] = "done" /\ pc["b"] = "idle"
  /\ today' = today + 1
  /\ UNCHANGED <<trades, pnlOrigin, bot, closedPnl, flat, nextOrderId, faultsLeft,
                 serial, sizer, pc, loc>>

Next ==
  \/ \E p \in Procs : AlertStart(p)
  \/ \E p \in Procs : OpenRisk(p)
  \/ \E p \in Procs : OpenInfo(p)
  \/ \E p \in Procs : OpenOrder(p)
  \/ \E p \in Procs : OpenInsert(p)
  \/ \E p \in Procs : OpenBotUpdate(p)
  \/ \E p \in Procs : CloseFind(p)
  \/ \E p \in Procs : CloseOrder(p)
  \/ \E p \in Procs : CloseUpdate(p)
  \/ \E p \in Procs : CloseBotUpdate(p)
  \/ \E p \in Procs : CloseTrigger(p)
  \/ \E p \in Procs : RecInvoke(p)
  \/ \E p \in Procs : RecCall(p)
  \/ \E p \in Procs : RecUpdate(p)
  \/ \E p \in Procs : RecBotUpdate(p)
  \/ ExchangeBook
  \/ NewDay

Spec == Init /\ [][Next]_vars

\* ------------------------------------- calculatePositionSize on its own
\* the worked example: 50000 / 49000 / 100 / Buy / 0.075% / 0.001 / 0.001 / 0 / 3
ExampleParams ==
  [entryPrice |-> 50000, stopLoss |-> 49000, riskAmount |-> 100, side |-> "Buy",
   feePercentage |-> 3, minQty |-> 1, qtyStep |-> 1, maxPositionSize |-> 0,
   decimals |-> 3]

SizerParams ==
  [entryPrice : {0, 500}, stopLoss : {0, 490, 500, 510}, riskAmount : {0, 90},
   side : {"Buy", "Sell", "Hold"}, feePercentage : {0, 3}, minQty : {1, 3, 25},
   qtyStep : {1, 2, 4}, maxPositionSize : {0, 1, 9}, decimals : {2, 3}]
  \cup {ExampleParams}

InitSizer ==
  /\ Store0
  /\ ~bot.test_mode /\ bot.daily_loss_limit = 0
  /\ faultsLeft = 0 /\ serial = TRUE
  /\ \E params \in SizerParams :
       sizer = [phase |-> "called", params |-> params, result |-> SizerError("")]

SizerCall ==
  /\ sizer.phase = "called"
  /\ sizer' = [sizer EXCEPT !.phase = "returned",
                            !.result = calculatePositionSize(sizer.params)]
  /\ UNCHANGED <<trades, pnlOrigin, bot, closedPnl, flat, today, nextOrderId,
                 faultsLeft, serial, pc, loc>>

NextSizer == SizerCall

SpecSizer == InitSizer /\ [][NextSizer]_vars

SpecFaults == InitFaults /\ [][Next]_vars

\* ------------------------- the handler variant without position sizing
\* Its open path differs from the one above in three places: the API key
\* lookup (.single(), no fallback key), the risk management checks (they
\* include the max position size check) and the quantity adjustment (no
\* sizing, no cap); from the order on the two variants are the same code.
PlainKeyOutcomes == {"found", "none"}

PlainStart(p) ==
  /\ Ready(p)
  /\ \E a \in {x \in Alerts : x.state = "open"}, key \in PlainKeyOutcomes :
       LET l == [Idle EXCEPT !.kind = a.state, !.alert = a, !.bot = bot,
                             !.plain = TRUE] IN
       IF key = "none"
       THEN End(p, l, "ApiCredentialsNotFound")
       ELSE Goto(p, l, "prisk")
  /\ UNCHANGED <<trades, pnlOrigin, bot, closedPnl, flat, today, nextOrderId, faultsLeft, serial, sizer>>

PositionSizeDeniedNever(b, a) == FALSE

\* rawQty * estPrice > bot.max_position_size, when both the max position
\* size and the alert's price are positive
PositionSizeDenied(b, a) ==
  LET rawQty == IF a.quantity = NULL THEN 0 ELSE a.quantity
      estPrice == IF a.price = NULL THEN 0 ELSE a.price
  IN  /\ b.max_position_size > 0
      /\ estPrice > 0
      /\ rawQty * estPrice > b.max_position_size * QtyUnit

\* the max position size check, after the daily loss check let the alert pass
PlainPositionCheck(p, l) ==
  IF PositionSizeDenied(l.bot, l.alert)
  THEN End(p, [l EXCEPT !.denied = TRUE], "PositionSizeExceeded")
  ELSE Goto(p, l, "pinfo")

PlainRisk(p) ==
  /\ pc[p] = "prisk"
  /\ LET l == loc[p]
         b == l.bot
     IN IF RiskCheckEnabled(b)
        THEN IF b.daily_loss_limit > 0
             THEN \E ok \in DbOutcomes :
                    /\ UseFault(ok)
                    /\ IF ~ok
                       THEN PlainPositionCheck(p, [l EXCEPT !.tradesError = TRUE])
                       ELSE IF DailyLossDenied(DailyPnL(trades, today),
                                               b.daily_loss_limit)
                            THEN End(p, [l EXCEPT !.denied = TRUE],
                                     "DailyLossLimitExceeded")
                            ELSE PlainPositionCheck(p, l)
             ELSE /\ PlainPositionCheck(p, l)
                  /\ UNCHANGED faultsLeft
        ELSE /\ Goto(p, l, "pinfo")
             /\ UNCHANGED faultsLeft
  /\ UNCHANGED <<trades, pnlOrigin, bot, closedPnl, flat, today, nextOrderId, serial, sizer>>

\* qty = rawQty < minQty ? minQty : floor(rawQty / step) * step; at least
\* minQty; toFixed(decimals)
PlainQty(a, rule) ==
  LET rawQty == IF a.quantity = NULL THEN 0 ELSE a.quantity
      qty == DefaultQty(rawQty, rule.minQty, rule.step)
  IN  ToFixed(IF qty < rule.minQty THEN rule.minQty ELSE qty, rule.decimals)

PlainInfo(p) ==
  /\ pc[p] = "pinfo"
  /\ LET l == [loc[p] EXCEPT !.infoCalls = @ + 1] IN
     \E ok \in BOOLEAN :
       IF ~ok
       THEN End(p, l, "InstrumentInfoError")
       ELSE \E rule \in InstrumentRules :
              Goto(p, [l EXCEPT !.quantity = PlainQty(l.alert, rule), !.rule = rule],
                   "order")
  /\ UNCHANGED <<trades, pnlOrigin, bot, closedPnl, flat, today, nextOrderId, faultsLeft, serial, sizer>>

\* either variant may be the one deployed when an alert arrives
NextVariants ==
  \/ Next
  \/ \E p \in Procs : PlainStart(p)
  \/ \E p \in Procs : PlainRisk(p)
  \/ \E p \in Procs : PlainInfo(p)

\* bots with and without a max position size of 1 USDT, no position sizing;
\* the invocations run one after the other, the data store answers every call
InitVariants ==
  /\ Start0
  /\ \E tm \in BOOLEAN, dl \in DailyLimits, mps \in {0, 1} :
       bot = BotRow(tm, dl, FALSE, mps)
  /\ faultsLeft = 0 /\ serial = TRUE /\ sizer = NoSizer

SpecVariants == InitVariants /\ [][NextVariants]_vars

\* bots with and without position sizing and a max position size of 1 USDT;
\* the invocations run one after the other, the data store answers every call
InitSizing ==
  /\ Start0
  /\ \E tm \in BOOLEAN, pse \in BOOLEAN, mps \in {0, 1} : bot = BotRow(tm, 0, pse, mps)
  /\ faultsLeft = 0 /\ serial = TRUE /\ sizer = NoSizer

SpecSizing == InitSizing /\ [][Next]_vars

\* ==================================================================== claims
TradeIds == 1..Len(trades)

\* the step p takes is the fetch of a reconciliation run (started by a close
\* invocation or by another caller) that found its Trade
RecFetchStep(p) ==
  /\ pc[p] \in {"idle", "trigger"}
  /\ pc'[p] = "rcall" \/ loc'[p].rresp # ""
  /\ loc'[p].tradeId \in TradeIds

\* C1: a Trade's state changes only from open to closed, and only by the
\* trades update of a close invocation that targets this Trade.
C1_StateOnlyOpenToClosed ==
  [][\A i \in TradeIds :
       trades'[i].state # trades[i].state =>
         /\ trades[i].state = "open"
         /\ trades'[i].state = "closed"
         /\ \E p \in Procs : /\ pc[p] = "cupdate"
                             /\ pc'[p] # "cupdate"
                             /\ loc[p].tradeId = i]_vars

\* a closed Trade that reconciliation has written to afterwards
C1_Witness ==
  \E i \in TradeIds : trades[i].state = "closed" /\ pnlOrigin[i] = "exchange"

\* C2: an invocation the risk gate denied has returned the deny response and
\* has made no instrument lookup, no order submission, no closed-PnL call, no
\* write to the trades table and no write to the bot's counters.
C2_DenyShortCircuits ==
  \A p \in Procs :
    loc[p].denied =>
      /\ pc[p] = "done"
      /\ loc[p].resp = "DailyLossLimitExceeded"
      /\ loc[p].infoCalls = 0
      /\ loc[p].orderCalls = 0
      /\ loc[p].pnlCalls = 0
      /\ loc[p].tradeWrites = 0
      /\ loc[p].botWrites = 0

C2_Witness ==
  \E p \in Procs : loc[p].denied /\ pc[p] = "done" /\ Len(trades) = 1

\* the daily-loss condition of the claim, on the sum S and the limit
DailyLossCond(S, limit) == S < 0 /\ -S >= limit

\* the step p takes is the daily-loss check of a bot with daily_loss_limit > 0
RiskStep(p) ==
  /\ pc[p] = "risk"
  /\ pc'[p] # "risk"
  /\ loc[p].bot.daily_loss_limit > 0

\* C3 as stated: with daily_loss_limit > 0 the signal is denied exactly when
\* the sum S of today's realized_pnl is negative with |S| >= daily_loss_limit.
C3_DeniedIffLossReached ==
  [][\A p \in Procs :
       RiskStep(p) =>
         (loc'[p].denied <=>
            DailyLossCond(DailyPnL(trades, today), loc[p].bot.daily_loss_limit))]_vars

\* C3 amended: the same equivalence when the query for today's trades
\* succeeds; when the query fails the signal is not denied.
C3_DeniedIffLossReachedAndQueried ==
  [][\A p \in Procs :
       RiskStep(p) =>
         /\ loc'[p].tradesError => ~loc'[p].denied
         /\ ~loc'[p].tradesError =>
              (loc'[p].denied <=>
                 DailyLossCond(DailyPnL(trades, today),
                               loc[p].bot.daily_loss_limit))]_vars

\* a denial at the boundary S = -daily_loss_limit
C3_Witness ==
  \E p \in Procs :
    /\ loc[p].denied
    /\ bot.daily_loss_limit > 0
    /\ DailyPnL(trades, today) = -bot.daily_loss_limit

\* the close invocation p is past its order step for a Trade that had
\* neither stop-loss nor take-profit
ClosedWithoutTpSl(p) ==
  /\ loc[p].kind = "close"
  /\ loc[p].needOrder
  /\ \/ pc[p] \in {"cupdate", "cbot", "trigger", "rcall", "rupdate", "rbot"}
     \/ pc[p] = "done" /\ loc[p].resp = "CloseSuccess"

\* the one order of the close invocation p: market, opposite side, the
\* Trade's quantity
OppositeMarketOrder(p) ==
  /\ loc[p].orderCalls = 1
  /\ pc[p] = "cupdate" =>
       /\ loc[p].orderType = "Market"
       /\ loc[p].orderSide # loc[p].trade.side
       /\ loc[p].orderSide \in {"Buy", "Sell"}
       /\ loc[p].orderQty = loc[p].trade.quantity

\* C4 as stated: closing a Trade that had neither stop-loss nor take-profit
\* always submits exactly one opposite-side market order for its quantity.
C4_OneOppositeOrder ==
  \A p \in Procs : ClosedWithoutTpSl(p) => OppositeMarketOrder(p)

\* C4 amended: so it is for a bot that is not in test mode; for a bot in
\* test mode the close order is simulated and none is submitted.
C4_OneOppositeOrderUnlessTest ==
  \A p \in Procs :
    ClosedWithoutTpSl(p) =>
      IF bot.test_mode THEN loc[p].orderCalls = 0 ELSE OppositeMarketOrder(p)

C4_Witness ==
  \E p \in Procs :
    /\ ClosedWithoutTpSl(p)
    /\ ~bot.test_mode
    /\ pc[p] = "cupdate"
    /\ loc[p].trade.side = "Sell"
    /\ loc[p].orderSide = "Buy"

\* C5: a close signal that finds an open Trade carrying a stop-loss or a
\* take-profit submits no order; its trades update sets state closed,
\* realized_pnl to the alert's realized_pnl (none when the alert has none or
\* a zero one) and close_reason to the alert's close_reason, take_profit
\* when the alert has none.
C5_TpSlCloseRecordsAlert ==
  [][\A p \in Procs :
       /\ (pc[p] = "find" /\ pc'[p] = "cupdate") =>
            /\ loc'[p].orderCalls = 0
            /\ loc'[p].realizedPnl =
                 (IF loc[p].alert.realized_pnl \in {NULL, 0} THEN NULL
                  ELSE loc[p].alert.realized_pnl)
            /\ loc'[p].closeReason =
                 (IF loc[p].alert.close_reason = "null" THEN "take_profit"
                  ELSE loc[p].alert.close_reason)
       /\ (pc[p] = "cupdate" /\ pc'[p] # "cupdate" /\ ~loc[p].needOrder) =>
            /\ loc'[p].orderCalls = 0
            /\ trades'[loc[p].tradeId].state = "closed"
            /\ trades'[loc[p].tradeId].realized_pnl = loc[p].realizedPnl
            /\ trades'[loc[p].tradeId].close_reason = loc[p].closeReason]_vars

C5_Witness ==
  \E i \in TradeIds :
    /\ trades[i].state = "closed"
    /\ trades[i].stop_loss # NULL
    /\ trades[i].close_reason = "stop_loss"
    /\ trades[i].realized_pnl = -120 * PnlUnit
    /\ trades[i].exit_price = NULL

\* C6 as stated: once a reconciliation run has written a real Trade's
\* realized_pnl, a further run on that Trade returns at its skip guard: no
\* exchange call, the Trade and the bot's profit_loss left as they are.
C6_ReconcileIdempotent ==
  [][\A p \in Procs :
       (/\ RecFetchStep(p)
        /\ ~bot.test_mode
        /\ trades[loc'[p].tradeId].avg_entry_price # NULL) =>
          /\ loc'[p].rresp = "Skipped"
          /\ pc'[p] = "done"
          /\ loc'[p].pnlCalls = 0
          /\ trades' = trades
          /\ bot' = bot]_vars

\* C7 as stated: a reconciliation run on a real Trade that holds the close
\* path's estimate, while the exchange lists a record for the Trade's
\* order_id, goes on to overwrite the estimate; it does not return with
\* "already has PnL".
C7_EstimateReplaced ==
  [][\A p \in Procs :
       (/\ RecFetchStep(p)
        /\ ~bot.test_mode
        /\ pnlOrigin[loc'[p].tradeId] = "estimate"
        /\ closedPnl[trades[loc'[p].tradeId].order_id] # NoRecord) =>
          loc'[p].rresp # "Skipped"]_vars

\* C8 as stated: a realized_pnl that reconciliation wrote is never replaced
\* by an estimate, an alert-supplied value or null.
C8_AuthoritativeKept ==
  [][\A i \in TradeIds :
       pnlOrigin[i] = "exchange" => pnlOrigin'[i] = "exchange"]_vars

\* C9 as stated: at most one Trade of a symbol is open at a time.
C9_OneOpenTradePerSymbol ==
  \A s \in Symbols : Cardinality(OpenTradeIds(trades, s)) <= 1

\* C10: an invocation calls executeBybitOrder at most once.
C10_OrderAttemptedOnce ==
  \A p \in Procs : loc[p].orderCalls <= 1

\* an order failed and the invocation returned the error without a retry
C10_Witness ==
  \E p, q \in Procs :
    /\ pc[p] = "done" /\ loc[p].resp = "OrderFailed" /\ loc[p].orderCalls = 1
    /\ pc[q] = "done" /\ loc[q].resp = "CloseOrderFailed" /\ loc[q].orderCalls = 1

\* the step p takes is an open order submission the exchange rejected
OpenOrderFails(p) ==
  /\ pc[p] = "order"
  /\ loc'[p].orderCalls = loc[p].orderCalls + 1
  /\ loc'[p].orderId = NULL

\* C21: a reconciliation run whose closed-PnL request succeeds but returns no
\* record for the Trade's order id changes neither the Trade nor the bot's
\* profit_loss, and ends with the non-fatal "no matching closed PnL" answer
\* (success false), not with the error answer.
C21_NoMatchLeavesAll ==
  [][\A p \in Procs :
       /\ pc[p] = "rcall" /\ pc'[p] # "rcall"
       /\ closedPnl[loc[p].rtrade.order_id] = NoRecord
       /\ ~loc'[p].pnlFailed
       => /\ pc'[p] = "done"
          /\ loc'[p].rresp = "NoMatch"
          /\ ~loc'[p].nested => loc'[p].resp = "NoMatch"
          /\ loc'[p].tradeWrites = loc[p].tradeWrites
          /\ loc'[p].botWrites = loc[p].botWrites
          /\ trades' = trades
          /\ bot' = bot]_vars

\* a run by another caller ended with the not-found answer while the exchange
\* holds a record of another order
C21_Witness ==
  \E p \in Procs :
    /\ pc[p] = "done" /\ loc[p].kind = "reconcile"
    /\ loc[p].resp = "NoMatch" /\ loc[p].pnlCalls = 1
    /\ loc[p].tradeWrites = 0 /\ loc[p].botWrites = 0
    /\ closedPnl[trades[loc[p].tradeId].order_id] = NoRecord
    /\ \E o \in OrderIds : closedPnl[o] # NoRecord

\* C22: a close invocation calls updateTradePnl only for a bot that is not in
\* test mode and only after it has issued the trades update that closes the
\* Trade; whatever the call's outcome (an error included), the close
\* invocation answers success and the Trade stays closed.
C22_TriggerAfterCloseUpdate ==
  \A p \in Procs :
    /\ pc[p] = "trigger" \/ loc[p].nested
       => /\ loc[p].kind = "close"
          /\ ~bot.test_mode
          /\ loc[p].tradeWrites >= 1
          /\ trades[loc[p].tradeId].state = "closed"
    /\ loc[p].kind = "close" /\ pc[p] = "done" /\ loc[p].tradeWrites >= 1
       => /\ loc[p].resp = "CloseSuccess"
          /\ trades[loc[p].tradeId].state = "closed"

\* the updateTradePnl call of a close invocation ended with the exchange
\* error; the close invocation answered success
C22_Witness ==
  \E p \in Procs :
    /\ pc[p] = "done" /\ loc[p].kind = "close" /\ loc[p].nested
    /\ loc[p].rresp = "ExchangeError" /\ loc[p].resp = "CloseSuccess"
    /\ trades[loc[p].tradeId].state = "closed"

\* C23: the risk management checks run for open signals only: a close
\* invocation never passes through them and is never denied by the daily
\* loss limit or the maximum position size.
C23_CloseSkipsRiskGate ==
  \A p \in Procs :
    loc[p].kind = "close"
    => /\ pc[p] \notin {"risk", "info", "order", "insert", "botupd"}
       /\ ~loc[p].denied
       /\ loc[p].resp \notin {"DailyLossLimitExceeded", "PositionSizeExceeded"}

\* a close invocation is about to update its Trade while today's loss has
\* reached the bot's daily loss limit
C23_Witness ==
  \E p \in Procs :
    /\ loc[p].kind = "close" /\ pc[p] = "cupdate"
    /\ bot.daily_loss_limit > 0
    /\ DailyLossDenied(DailyPnL(trades, today), bot.daily_loss_limit)

\* C24: a close signal for a symbol with no open Trade of the bot is answered
\* with not-found and has no effect: no order, no Trade written, profit_loss
\* unchanged, no updateTradePnl call.
C24_CloseWithoutOpenTrade ==
  [][\A p \in Procs :
       /\ pc[p] = "find" /\ pc'[p] # "find"
       /\ \A i \in TradeIds :
            ~(trades[i].symbol = loc[p].alert.symbol /\ trades[i].state = "open")
       => /\ pc'[p] = "done"
          /\ loc'[p].resp = "NoOpenTrade"
          /\ loc'[p].orderCalls = 0 /\ loc'[p].tradeWrites = 0
          /\ loc'[p].botWrites = 0 /\ loc'[p].pnlCalls = 0
          /\ ~loc'[p].nested
          /\ trades' = trades /\ bot' = bot /\ flat' = flat]_vars

\* a close signal arrived when the symbol's only Trade was closed already
C24_Witness ==
  \E p \in Procs :
    /\ pc[p] = "done" /\ loc[p].kind = "close" /\ loc[p].resp = "NoOpenTrade"
    /\ trades # <<>>
    /\ \A i \in TradeIds : trades[i].state = "closed"

\* C25: with several open Trades of the bot and symbol, a close invocation
\* picks the one created last and its trades update changes that Trade only;
\* the other open Trades stay open.
C25_ClosesLatestOnly ==
  [][\A p \in Procs :
       /\ (pc[p] = "find" /\ pc'[p] \in {"corder", "cupdate"})
          => /\ loc'[p].tradeId \in TradeIds
             /\ trades[loc'[p].tradeId].state = "open"
             /\ \A j \in TradeIds :
                  (trades[j].state = "open"
                   /\ trades[j].symbol = trades[loc'[p].tradeId].symbol)
                  => j <= loc'[p].tradeId
       /\ (pc[p] = "cupdate" /\ pc'[p] # "cupdate")
          => /\ trades'[loc[p].tradeId].state = "closed"
             /\ \A j \in TradeIds : j # loc[p].tradeId => trades'[j] = trades[j]]_vars

\* two Trades were open; the later one is closed, the earlier one is open
C25_Witness ==
  \E p \in Procs :
    /\ pc[p] = "done" /\ loc[p].kind = "close" /\ loc[p].resp = "CloseSuccess"
    /\ Len(trades) = 2 /\ loc[p].tradeId = 2
    /\ trades[1].state = "open" /\ trades[2].state = "closed"

\* the open alert's estimated notional (quantity x price) is over the bot's
\* positive max position size
NotionalExceeds(l) ==
  /\ l.kind = "open"
  /\ l.bot.max_position_size > 0
  /\ l.alert.quantity # NULL /\ l.alert.price # NULL
  /\ l.alert.quantity * l.alert.price > l.bot.max_position_size * QtyUnit

\* C26 as stated: an open signal whose estimated notional exceeds the bot's
\* positive max position size leaves the risk management checks denied, with
\* the position-size reason, no order and no Trade.
C26_ExceedingOpenDenied ==
  [][\A p \in Procs :
       /\ pc[p] \in {"risk", "prisk"} /\ pc'[p] \notin {"risk", "prisk"}
       /\ NotionalExceeds(loc[p])
       => /\ pc'[p] = "done"
          /\ loc'[p].denied
          /\ loc'[p].resp = "PositionSizeExceeded"]_vars

\* C26 (amended): the handler variant without position sizing denies such an
\* open signal in its risk management checks (position-size reason, or the
\* daily-loss reason when that check denied first), places no order and
\* records no Trade; the sizing-aware handler does not deny it: it reduces
\* the quantity so that quantity x price is within the max position size and
\* goes on to the order.
C26_ExceedingOpenDeniedOrCapped ==
  [][\A p \in Procs :
       /\ (/\ pc[p] = "prisk" /\ pc'[p] # "prisk"
           /\ NotionalExceeds(loc[p]))
          => /\ pc'[p] = "done"
             /\ loc'[p].denied
             /\ loc'[p].resp \in {"PositionSizeExceeded", "DailyLossLimitExceeded"}
             /\ loc'[p].resp = "DailyLossLimitExceeded"
                  => DailyPnL(trades, today) < 0
             /\ loc'[p].orderCalls = 0 /\ loc'[p].tradeWrites = 0
             /\ trades' = trades /\ nextOrderId' = nextOrderId
       /\ (/\ pc[p] \in {"risk", "info"} /\ pc'[p] \notin {"risk", "info"}
           /\ NotionalExceeds(loc[p]))
          => /\ loc'[p].resp # "PositionSizeExceeded"
             /\ pc[p] = "info" /\ pc'[p] # "done"
                  => /\ pc'[p] = "order"
                     /\ ~loc'[p].denied
                     /\ loc'[p].quantity * loc[p].alert.price
                          <= loc[p].bot.max_position_size * QtyUnit]_vars

\* the variant without position sizing denied an open signal for its
\* position size; nothing was ordered or recorded
C26_Witness ==
  \E p \in Procs :
    /\ pc[p] = "done" /\ loc[p].plain /\ loc[p].kind = "open"
    /\ loc[p].denied /\ loc[p].resp = "PositionSizeExceeded"
    /\ loc[p].orderCalls = 0 /\ loc[p].tradeWrites = 0
    /\ bot.max_position_size > 0

\* C27: the open path writes the bot's trade_count and profit_loss, and the
\* close path its profit_loss, from the bot row the invocation read at its
\* start, not from the row as it is at the write: of two concurrent
\* invocations the later write replaces the earlier one (a lost update).
C27_CountersFromSnapshot ==
  [][\A p \in Procs :
       /\ (pc[p] = "botupd" /\ pc'[p] = "done")
          => /\ bot'.trade_count = IF loc[p].bot.trade_count = 0 THEN 1
                                   ELSE loc[p].bot.trade_count + 1
             /\ bot'.profit_loss = loc[p].bot.profit_loss
                                   + (IF loc[p].realizedPnl = NULL THEN 0
                                      ELSE loc[p].realizedPnl)
       /\ (pc[p] = "cbot" /\ pc'[p] # "cbot")
          => bot'.profit_loss = loc[p].bot.profit_loss + loc[p].realizedPnl]_vars

\* two open invocations each recorded a Trade and each wrote the bot's
\* counters, yet trade_count is 1
C27_Witness ==
  \E p, q \in Procs :
    /\ p # q
    /\ \A r \in {p, q} :
         /\ pc[r] = "done" /\ loc[r].kind = "open" /\ loc[r].resp = "OpenSuccess"
         /\ loc[r].tradeWrites = 1 /\ loc[r].botWrites = 1
    /\ Len(trades) = 2
    /\ bot.trade_count = 1

\* C28: there is no deduplication of alerts: every open invocation that gets
\* to the order places one (unless simulated) and every one that gets to
\* the insert adds a new open Trade, whatever Trades exist already; the same
\* alert delivered twice gives two orders and two open Trades.
C28_NoDeduplication ==
  [][\A p \in Procs :
       /\ (pc[p] = "order" /\ pc'[p] # "order" /\ ~loc[p].bot.test_mode)
          => loc'[p].orderCalls = loc[p].orderCalls + 1
       /\ (pc[p] = "insert" /\ pc'[p] # "insert")
          => /\ Len(trades') = Len(trades) + 1
             /\ trades'[Len(trades')].state = "open"
             /\ trades'[Len(trades')].order_id = loc[p].orderId
             /\ \A i \in TradeIds : trades'[i] = trades[i]]_vars

\* two open Trades that agree in every field of the alert, from two orders
C28_Witness ==
  \E p, q \in Procs :
    /\ p # q
    /\ \A r \in {p, q} :
         /\ pc[r] = "done" /\ loc[r].kind = "open" /\ loc[r].resp = "OpenSuccess"
         /\ loc[r].orderCalls = 1 /\ loc[r].tradeWrites = 1
    /\ loc[p].tradeId = 1 /\ loc[q].tradeId = 2
    /\ trades[1].state = "open" /\ trades[2].state = "open"
    /\ trades[1].order_id # trades[2].order_id
    /\ [trades[1] EXCEPT !.order_id = 0] = [trades[2] EXCEPT !.order_id = 0]

\* C30: two concurrent close invocations that find the same open Trade
\* (no stop loss, no take profit) submit at most one close order between
\* them (stated for the invocations the exchange did not turn down).
C30_OneCloseOrderPerTrade ==
  \A p, q \in Procs :
    (/\ p # q
     /\ loc[p].kind = "close" /\ loc[q].kind = "close"
     /\ Len(trades) = 1
     /\ trades[1].stop_loss = NULL /\ trades[1].take_profit = NULL
     /\ loc[p].tradeId = 1 /\ loc[q].tradeId = 1
     /\ loc[p].resp = "CloseSuccess" /\ loc[q].resp = "CloseSuccess")
    => loc[p].orderCalls + loc[q].orderCalls <= 1

\* C29: a reconciliation run whose closed-PnL request fails (HTTP status or a
\* non-zero retCode) ends there with the error answer and writes neither the
\* Trade nor the bot's profit_loss.
C29_ExchangeErrorWritesNothing ==
  [][\A p \in Procs :
       loc'[p].pnlFailed /\ ~loc[p].pnlFailed
       => /\ pc[p] = "rcall" /\ pc'[p] = "done"
          /\ loc'[p].rresp = "ExchangeError"
          /\ ~loc'[p].nested => loc'[p].resp = "ExchangeError"
          /\ loc'[p].tradeWrites = loc[p].tradeWrites
          /\ loc'[p].botWrites = loc[p].botWrites
          /\ trades' = trades
          /\ bot' = bot]_vars

\* the request of a run by another caller failed although the exchange holds
\* the record of the Trade's order
C29_Witness ==
  \E p \in Procs :
    /\ pc[p] = "done" /\ loc[p].kind = "reconcile" /\ loc[p].pnlFailed
    /\ loc[p].resp = "ExchangeError"
    /\ loc[p].tradeWrites = 0 /\ loc[p].botWrites = 0
    /\ closedPnl[trades[loc[p].tradeId].order_id] # NoRecord
    /\ trades[loc[p].tradeId].realized_pnl = NULL

\* C31: whenever a close invocation has answered success, the Trade it
\* targeted is in state closed in the store.
C31_CloseSuccessMeansClosed ==
  \A p \in Procs :
    (pc[p] = "done" /\ loc[p].kind = "close" /\ loc[p].resp = "CloseSuccess")
    => trades[loc[p].tradeId].state = "closed"

\* C32: whenever an open invocation has answered success, it has recorded a
\* Trade, and it has incremented the bot's trade_count only if it has.
C32_OpenSuccessMeansRecorded ==
  \A p \in Procs :
    (pc[p] = "done" /\ loc[p].kind = "open")
    => /\ loc[p].resp = "OpenSuccess"
            => loc[p].tradeWrites = 1 /\ loc[p].tradeId \in TradeIds
       /\ loc[p].botWrites >= 1 => loc[p].tradeWrites = 1

\* C33: without concurrency, whenever no invocation is under way the bot's
\* profit_loss (initially 0) equals the sum of realized_pnl (null as 0) over
\* the bot's Trades.
C33_ProfitLossIsSumOfPnl ==
  (\A p \in Procs : pc[p] \in {"idle", "done"})
  => bot.profit_loss = SumPnlFrom(trades, 1, 0)

\* C34: an alert invocation whose bot-specific / default API key lookup
\* failed while a fallback key exists goes on with the fallback key; it does
\* not end in an error.
C34_FallbackKeyContinues ==
  \A p \in Procs :
    loc[p].fallbackKey
    => loc[p].resp \notin {"Error", "ApiCredentialsNotFound"}

\* C35: a reconciliation run writes realized_pnl and the average prices only
\* to a Trade whose state is closed, never to an open one.
C35_ReconcileOnlyClosed ==
  [][\A p \in Procs :
       (pc[p] = "rupdate" /\ trades' # trades)
       => trades[loc[p].tradeId].state = "closed"]_vars

\* C36: a reconciliation run on a Trade of a test-mode bot never calls the
\* exchange and writes neither the Trade nor the bot, whether or not
\* realized_pnl is set; it ends in its first step, leaving the store as it is.
C36_TestModeReconcileNoEffect ==
  /\ \A p \in Procs :
       (bot.test_mode /\ (loc[p].kind = "reconcile" \/ loc[p].nested))
       => /\ pc[p] = "done"
          /\ loc[p].pnlCalls = 0
          /\ loc[p].tradeWrites = 0 /\ loc[p].botWrites = 0
  /\ bot.test_mode =>
       \A i \in TradeIds : pnlOrigin[i] # "exchange"

\* a run on a test-mode Trade with realized_pnl set answered with the stored
\* value
C36_Witness ==
  \E p \in Procs :
    /\ pc[p] = "done" /\ loc[p].kind = "reconcile" /\ loc[p].resp = "TestTrade"
    /\ bot.test_mode
    /\ trades[loc[p].tradeId].realized_pnl # NULL
    /\ bot.profit_loss = SumPnlFrom(trades, 1, 0)

\* C37: the open path gets to the order only with an instrument rule
\* obtained; when the instruments-info request fails the invocation ends
\* with the error: no order, no Trade, the bot's counters unchanged.
C37_InfoErrorEnds ==
  [][\A p \in Procs :
       (pc[p] = "info" /\ pc'[p] # "info")
       => \/ /\ pc'[p] = "order"
             /\ loc'[p].rule \in InstrumentRules
          \/ /\ pc'[p] = "done"
             /\ loc'[p].resp = "InstrumentInfoError"
             /\ loc'[p].orderCalls = 0 /\ loc'[p].tradeWrites = 0
             /\ loc'[p].botWrites = 0
             /\ trades' = trades /\ bot' = bot
             /\ nextOrderId' = nextOrderId]_vars

C37_Witness ==
  \E p \in Procs :
    /\ pc[p] = "done" /\ loc[p].kind = "open"
    /\ loc[p].resp = "InstrumentInfoError" /\ loc[p].infoCalls = 1
    /\ loc[p].orderCalls = 0 /\ loc[p].tradeWrites = 0 /\ loc[p].botWrites = 0
    /\ trades = <<>> /\ bot.trade_count = 0

\* C38: an open invocation whose query for today's trades failed is not
\* denied by the daily loss check: it goes on to the instrument info, the
\* sizing and the order, whatever today's losses are.
C38_TradesErrorFailsOpen ==
  /\ [](\A p \in Procs :
         loc[p].tradesError
         => /\ ~loc[p].denied
            /\ loc[p].resp # "DailyLossLimitExceeded"
            /\ pc[p] # "risk")
  /\ [][\A p \in Procs :
          (loc'[p].tradesError /\ ~loc[p].tradesError)
          => pc[p] = "risk" /\ pc'[p] = "info"]_vars

\* the query failed while today's loss had reached the limit; the order was
\* placed and the open invocation answered success
C38_Witness ==
  \E p \in Procs :
    /\ pc[p] = "done" /\ loc[p].kind = "open" /\ loc[p].tradesError
    /\ loc[p].resp = "OpenSuccess" /\ loc[p].orderCalls = 1
    /\ bot.daily_loss_limit > 0
    /\ \E i \in TradeIds :
         /\ i # loc[p].tradeId
         /\ trades[i].created_day = today
         /\ trades[i].realized_pnl # NULL
         /\ trades[i].realized_pnl < 0
         /\ -trades[i].realized_pnl >= bot.daily_loss_limit

\* C39: two reconciliation runs of the same Trade of a real bot that both
\* read realized_pnl = null and both write leave the Trade with the
\* exchange's PnL and the bot's profit_loss with that PnL added once (the
\* open invocation before them left profit_loss at 0).
C39_ConcurrentReconcileAddsOnce ==
  \A p, q \in Procs :
    (/\ p # q
     /\ \A r \in {p, q} :
          /\ pc[r] = "done" /\ loc[r].kind = "reconcile"
          /\ loc[r].rresp = "Updated"
          /\ loc[r].tradeWrites = 1 /\ loc[r].botWrites = 1
     /\ loc[p].tradeId = loc[q].tradeId)
    => /\ ~bot.test_mode
       /\ trades[loc[p].tradeId].realized_pnl
            = closedPnl[trades[loc[p].tradeId].order_id].closedPnl
       /\ bot.profit_loss = trades[loc[p].tradeId].realized_pnl

C39_Witness ==
  \E p, q \in Procs :
    /\ p # q
    /\ \A r \in {p, q} :
         /\ pc[r] = "done" /\ loc[r].kind = "reconcile"
         /\ loc[r].rresp = "Updated"
         /\ loc[r].tradeWrites = 1 /\ loc[r].botWrites = 1
    /\ loc[p].tradeId = loc[q].tradeId
    /\ bot.profit_loss = -100 * PnlUnit

\* C11: when the order of an open signal fails, the invocation returns the
\* order error in that step; it has inserted no Trade and has not written the
\* bot's trade_count and profit_loss, and the tables are as they were.
C11_FailedOpenLeavesNoTrace ==
  [][\A p \in Procs :
       OpenOrderFails(p) =>
         /\ pc'[p] = "done"
         /\ loc'[p].resp = "OrderFailed"
         /\ loc'[p].tradeWrites = 0
         /\ loc'[p].botWrites = 0
         /\ trades' = trades
         /\ bot' = bot]_vars

\* an open order failed while the bot already had a Trade and a trade count
C11_Witness ==
  \E p \in Procs :
    /\ loc[p].resp = "OrderFailed"
    /\ loc[p].kind = "open"
    /\ Len(trades) = 1
    /\ bot.trade_count = 1

\* the step p takes is a close order submission the exchange rejected
CloseOrderFails(p) ==
  /\ pc[p] = "corder"
  /\ loc'[p].orderCalls = loc[p].orderCalls + 1
  /\ loc'[p].resultPrice = NULL

\* C12: when the close order fails, the invocation returns the close-order
\* error in that step: it has written neither the Trade nor the bot and has
\* not started reconciliation, and the tables are as they were.
C12_FailedCloseLeavesTrade ==
  [][\A p \in Procs :
       CloseOrderFails(p) =>
         /\ pc'[p] = "done"
         /\ loc'[p].resp = "CloseOrderFailed"
         /\ loc'[p].tradeWrites = 0
         /\ loc'[p].botWrites = 0
         /\ loc'[p].pnlCalls = 0
         /\ loc'[p].rresp = ""
         /\ ~loc'[p].nested
         /\ trades' = trades
         /\ bot' = bot]_vars

\* a close order failed and its Trade is still open with nothing recorded
C12_Witness ==
  \E p \in Procs :
    /\ loc[p].resp = "CloseOrderFailed"
    /\ loc[p].tradeId \in TradeIds
    /\ trades[loc[p].tradeId].state = "open"
    /\ trades[loc[p].tradeId].realized_pnl = NULL
    /\ trades[loc[p].tradeId].exit_price = NULL
    /\ bot.profit_loss = 0

\* C13: for a bot in test mode no invocation calls executeBybitOrder and none
\* ends with an order error; an open invocation that answers success has
\* inserted its Trade and a close invocation that answers success has issued
\* its update of the Trade.
C13_TestModeNeverOrders ==
  bot.test_mode =>
    \A p \in Procs :
      /\ loc[p].orderCalls = 0
      /\ loc[p].resp \notin {"OrderFailed", "CloseOrderFailed"}
      /\ loc[p].resp = "OpenSuccess" => loc[p].tradeWrites = 1
      /\ (loc[p].resp = "CloseSuccess" /\ loc[p].kind = "close") =>
            loc[p].tradeWrites = 1

\* a test-mode Trade opened and then closed through the simulated close order
C13_Witness ==
  /\ bot.test_mode
  /\ \E i \in TradeIds : trades[i].state = "closed" /\ pnlOrigin[i] = "estimate"
  /\ \E p, q \in Procs : loc[p].resp = "OpenSuccess" /\ loc[q].resp = "CloseSuccess"

\* ------------------------------------------- claims on calculatePositionSize
Returned == sizer.phase = "returned"

\* the inputs the claims call valid
ValidParams(a) ==
  /\ a.entryPrice > 0 /\ a.stopLoss > 0 /\ a.riskAmount > 0
  /\ a.side \in {"Buy", "Sell"}
  /\ a.side = "Buy" => a.stopLoss < a.entryPrice
  /\ a.side = "Sell" => a.stopLoss > a.entryPrice
  /\ a.qtyStep > 0

\* C14 as stated: for valid inputs the returned quantity is non-negative, a
\* multiple of qtyStep and at least minQty.
C14_QuantityOnStepAboveMin ==
  (Returned /\ ValidParams(sizer.params)) =>
    /\ sizer.result.error = ""
    /\ sizer.result.quantity >= 0
    /\ sizer.result.quantity % sizer.params.qtyStep = 0
    /\ sizer.result.quantity >= sizer.params.minQty

\* C15 as stated: for valid inputs with maxPositionSize > 0 the returned
\* quantity times entryPrice is at most maxPositionSize.
C15_QuantityWithinMaxPosition ==
  (Returned /\ ValidParams(sizer.params) /\ sizer.params.maxPositionSize > 0) =>
    /\ sizer.result.error = ""
    /\ sizer.result.quantity * sizer.params.entryPrice
         <= sizer.params.maxPositionSize * QtyUnit

\* C16: non-positive entryPrice, stopLoss or riskAmount raise a validation
\* error; otherwise Buy with stopLoss >= entryPrice and Sell with stopLoss <=
\* entryPrice raise the invalid-stop-loss error; no quantity is returned in
\* any of these cases, and a quantity is returned without error otherwise.
C16_InvalidInputsRaise ==
  Returned =>
    LET a == sizer.params
        r == sizer.result
        nonPositive == a.entryPrice <= 0 \/ a.stopLoss <= 0 \/ a.riskAmount <= 0
        wrongSide == \/ a.side = "Buy" /\ a.stopLoss >= a.entryPrice
                     \/ a.side = "Sell" /\ a.stopLoss <= a.entryPrice
    IN /\ nonPositive => r.error \in {"EntryPrice", "StopLoss", "RiskAmount"}
       /\ (wrongSide /\ ~nonPositive) => r.error = "InvalidStopLoss"
       /\ (nonPositive \/ wrongSide) => r.quantity = NULL
       /\ (~nonPositive /\ ~wrongSide /\ a.side \in {"Buy", "Sell"}) =>
            r.error = "" /\ r.quantity # NULL

\* Buy with the stop loss exactly at the entry price was refused
C16_Witness ==
  /\ Returned
  /\ sizer.params.side = "Buy"
  /\ sizer.params.stopLoss = sizer.params.entryPrice
  /\ sizer.params.riskAmount > 0
  /\ sizer.result.error = "InvalidStopLoss"

\* C17 as stated: the worked example returns 0.093.
C17_ExampleReturns93 ==
  (Returned /\ sizer.params = ExampleParams) => sizer.result.quantity = 93

\* ------------------------------------------------------ claims, continued
\* the price difference in the Trade's favour times its quantity, minus
\* 0.001 of the exit value, as a PnL amount
PnlOfClose(t, exitPrice) ==
  (IF t.side = "Buy" THEN exitPrice - t.price ELSE t.price - exitPrice)
     * t.quantity * 1000
  - (exitPrice * t.quantity * 1000) \div 1000

\* C18: a close order filled for a close signal without alert-supplied PnL
\* yields (exit - entry) * quantity for Buy, (entry - exit) * quantity for
\* Sell, minus exit * quantity * 0.001, and the trades update that follows
\* records that amount and the exit price; Buy at 50000, quantity 0.1, filled
\* at 50500 gives 44.95.
C18_EstimateFormula ==
  [][/\ EstimatePnl("Buy", 50000, 50500, 100, 100) = 44950000
     /\ \A p \in Procs :
          /\ (/\ pc[p] = "corder" /\ pc'[p] = "cupdate"
              /\ loc[p].realizedPnl = NULL) =>
                loc'[p].realizedPnl = PnlOfClose(loc[p].trade, loc'[p].resultPrice)
          /\ (/\ pc[p] = "cupdate" /\ pc'[p] # "cupdate" /\ trades' # trades
              /\ loc[p].needOrder) =>
                /\ trades'[loc[p].tradeId].realized_pnl = loc[p].realizedPnl
                /\ trades'[loc[p].tradeId].exit_price = loc[p].resultPrice]_vars

\* a real Sell Trade entered at 500 and closed by a fill at 520: -2.0 - 0.052
C18_Witness ==
  /\ ~bot.test_mode
  /\ \E i \in TradeIds :
       /\ trades[i].state = "closed"
       /\ trades[i].side = "Sell"
       /\ trades[i].exit_price = 520
       /\ trades[i].realized_pnl = -2052000

\* the step p takes leaves the order step of the open path: the order is
\* submitted (or simulated) with the quantity the handler arrived at
OrderStep(p) == pc[p] = "order" /\ pc'[p] # "order"

\* C19 as stated: the quantity of every open order, and of the Trade recorded
\* for it, is a multiple of the instrument's step and at least its minimum.
C19_OrderQtyOnStepAboveMin ==
  [][\A p \in Procs :
       OrderStep(p) =>
         /\ loc[p].quantity % loc[p].rule.step = 0
         /\ loc[p].quantity >= loc[p].rule.minQty
         /\ loc[p].quantity > 0]_vars

\* C20 as stated: an invocation whose position sizing failed places no order
\* and records no Trade.
C20_SizingFailureAborts ==
  \A p \in Procs :
    loc[p].sizingFailed =>
      /\ loc[p].orderCalls = 0
      /\ loc[p].tradeWrites = 0
      /\ loc[p].resp # "OpenSuccess"

\* the step p takes is an instrument lookup in which calculatePositionSize
\* was called and threw
SizingFails(p) ==
  /\ pc[p] = "info" /\ pc'[p] # "info"
  /\ loc[p].bot.position_sizing_enabled
  /\ Truthy(loc[p].alert.stopLoss)
  /\ \/ loc[p].alert.side = "Buy" /\ loc[p].alert.stopLoss >= loc[p].alert.price
     \/ loc[p].alert.side = "Sell" /\ loc[p].alert.stopLoss <= loc[p].alert.price
  /\ loc'[p].resp # "InstrumentInfoError"

\* C20 amended: when position sizing fails the open path is not aborted: the
\* handler goes on to the order with the alert's quantity rounded down to the
\* step (the minimum when it is below the minimum), less where the max
\* position cap reduces it.
C20_SizingFailureFallsBack ==
  [][\A p \in Procs :
       SizingFails(p) =>
         /\ pc'[p] = "order"
         /\ loc'[p].sizingFailed
         /\ loc'[p].resp = ""
         /\ loc'[p].quantity <= (loc[p].alert.quantity \div loc'[p].rule.step)
                                   * loc'[p].rule.step
         /\ loc[p].bot.max_position_size = 0 =>
              loc'[p].quantity = (loc[p].alert.quantity \div loc'[p].rule.step)
                                   * loc'[p].rule.step]_vars

\* sizing failed (Sell with the stop loss below the price), the order went out
\* and the Trade was recorded
C20_Witness ==
  \E p \in Procs :
    /\ loc[p].sizingFailed
    /\ loc[p].resp = "OpenSuccess"
    /\ loc[p].tradeWrites = 1
    /\ ~bot.test_mode /\ loc[p].orderCalls = 1

====
